---- MODULE Spec2Model ----
(***************************************************************************)
(* Model of ooda/cameras/pi_zero_w/pi_camera.py: the VideoCapture object,  *)
(* its controlling thread (start_capture / stop_capture), the capture      *)
(* thread (_capture_video_loop) and the upload thread (_s3_upload_loop).   *)
(*                                                                         *)
(* Time is counted in whole seconds.  A chunk's path is                    *)
(* video_<timestamp>.h264 with the timestamp formatted to the second, so a *)
(* path is represented by the second at which it was formed: two chunks    *)
(* formed in the same second have the same path.                           *)
(*                                                                         *)
(* The module also models ooda/ingest/stream.py: save(), which reads an    *)
(* RTSP stream, writes it in chunks and hands each chunk to upload_to_s3   *)
(* (ooda/ingest/upload.py).  A chunk of save() is represented by its       *)
(* chunk_counter value.  The two programs share no state: each has its own *)
(* specifications and the variables of the other stay at their initial     *)
(* values.                                                                 *)
(***************************************************************************)
EXTENDS Integers, Sequences, FiniteSets

\* ---------------------------------------------------------------- constants
VIDEO_CHUNK_DURATION == 60
S3_UPLOAD_INTERVAL == 300
BATCH_COUNT == 10
RETRY_DELAY == 1
\* ingest/stream.py
DEFAULT_FPS == 30
CHUNK_DURATION == 60

\* ------------------------------------------------------------------- bounds
\* the clock advances in steps of TickStep seconds and stops at MaxTime
TickStep == 300
MaxTime == 602
\* calls of the camera / encoder that raise, storage uploads that raise,
\* chunk files that disappear from local storage behind the program's back
MaxCaptureErrors == 2
MaxUploadFailures == 1
MaxVanish == 1
\* chunks already on video_queue when the upload loop is run on its own
MaxPreload == 11
\* the clock step and the horizon of the capture loop run on its own
CaptureTickStep == 30
MaxCaptureTime == 150
\* frames the stream delivers; interrupts and raising calls in one save()
MaxFrames == 125
MaxSaveFaults == 2

NoPath == -1
\* stop_capture has not been called yet
NoTime == NoPath
\* current_writer = None, current_filename = None
NoChunk == NoPath
Modes == {"capture-only", "invalid-mode"}
\* what cap.get(cv2.CAP_PROP_FPS) reports, 0 when the stream does not say
FpsValues == {0, 1}

VARIABLES
  mode,              \* self.mode
  s3_bucket,         \* self.s3_bucket is set (TRUE) or None (FALSE)
  running,           \* self.running
  video_queue,       \* self.video_queue, oldest first
  camera,            \* the camera: new, started, stopped, or unknown after a
                     \* call on it raised
  disk,              \* paths of the files present under storage_path
  now,               \* the wall clock, seconds
  pc_m,              \* controlling thread: position in start_capture
  pc_c,              \* capture thread: position in _capture_video_loop
  filepath,          \* capture thread: local filepath
  start_time,        \* capture thread: local start_time
  wake,              \* capture thread: end of the time.sleep(1) of the handler
  started,           \* outputs of the encoders that are started and not stopped
  pc_u,              \* upload thread: position in _s3_upload_loop
  files_to_upload,   \* upload thread: local files_to_upload
  last_upload_time,  \* upload thread: local last_upload_time
  current_time,      \* upload thread: local current_time
  idx,               \* upload thread: position of the for loop in the batch
  enqueued,          \* history: paths put on video_queue, in order
  uploadLog,         \* history: paths passed to s3_client.upload_file, in order
  s3,                \* history: paths whose upload_file returned
  failed,            \* history: paths logged by "Failed to upload"
  skipped,           \* history: paths logged by "File doesn't exist, skipping"
  aborted,           \* history: paths whose recording raised an error
  errlog,            \* history: "Unsupported mode" was logged
  threads,           \* history: targets of the threads start_capture started
  stop_time,         \* history: the clock when running was first cleared
  stop_chunk,        \* history: the path being recorded when running was
                     \* first cleared
  recorded,          \* history: <<path, seconds>> of each recording whose
                     \* wait ended, the seconds counted from start_time
  cycles,            \* history: number of upload cycles started
  captureErrors,     \* number of camera / encoder calls that raised
  uploadFailures,    \* number of upload_file calls that raised
  vanishCount,       \* number of files that disappeared
  \* ---- ingest/stream.py, save(url, s3_bucket_name)
  pc_s,              \* position of save()
  cap_open,          \* cap holds the opened stream (not yet released)
  frames_per_chunk,  \* frames_per_chunk
  chunk_counter,     \* chunk_counter
  frame_counter,     \* frame_counter
  current_writer,    \* current_writer: None, or the writer made for a chunk
  current_filename,  \* current_filename: None, or the file of a chunk
  open_writers,      \* chunks whose VideoWriter has not been released
  tmp_disk,          \* chunk files in /tmp/video_chunks
  stored,            \* chunks stored in the bucket
  created,           \* history: chunks in the order their writers were made
  attempts,          \* history: chunks in the order upload_to_s3 was called
  upload_failed,     \* history: chunks whose upload failed
  removed,           \* history: chunks deleted by os.remove
  exc,               \* an exception other than KeyboardInterrupt is pending
  saveFaults         \* number of interrupts and raising calls so far

piVars == <<mode, s3_bucket, running, video_queue, camera, disk, now, pc_m, pc_c,
          filepath, start_time, wake, started, pc_u, files_to_upload,
          last_upload_time, current_time, idx, enqueued, uploadLog, s3, failed,
          skipped, aborted, errlog, cycles, captureErrors, uploadFailures,
          vanishCount, threads, stop_time, stop_chunk, recorded>>
saveVars == <<pc_s, cap_open, frames_per_chunk, chunk_counter, frame_counter,
              current_writer, current_filename, open_writers, tmp_disk, stored,
              created, attempts, upload_failed, removed, exc, saveFaults>>
vars == <<piVars, saveVars>>

mainVars == <<mode, s3_bucket, pc_m, errlog, threads, stop_time, stop_chunk>>
captureVars == <<camera, pc_c, filepath, start_time, wake, started, enqueued,
                 aborted, captureErrors, recorded>>
uploadVars == <<pc_u, files_to_upload, last_upload_time, current_time, idx,
                uploadLog, s3, failed, skipped, cycles, uploadFailures>>

\* ------------------------------------------------------------------ helpers
Range(s) == {s[i] : i \in 1..Len(s)}

\* strftime("%Y%m%d_%H%M%S") of the clock: the path of the chunk formed at t
PathAt(t) == t

\* A call that raised may or may not have taken effect before it raised.
FailedCall(before, after) == {before, after}

\* the test of start_capture on self.mode
SupportedAny(m) == TRUE
Supported(m) == m = "capture-only"

\* the threads start_capture starts: the capture thread, and the upload thread
\* if a bucket was given
SpawnedAlways(bucket) == <<"capture", "upload">>
Spawned(bucket) == IF bucket THEN <<"capture", "upload">> ELSE <<"capture">>

\* queue.Queue.put / get_nowait: first in, first out
QueuePutFront(q, p) == <<p>> \o q
QueuePut(q, p) == Append(q, p)
QueueHead(q) == Head(q)
QueueRest(q) == Tail(q)

\* encoder.start() of the encoder writing to p: the output file is created
EncoderStart(st, p) == st \cup {p}
\* encoder.stop() of the encoder writing to p
EncoderStopSkipped(st, p) == st
EncoderStop(st, p) == st \ {p}

\* the wait of the recording: still inside the chunk's duration and running
StillRecording(t, t0, r) == t - t0 < VIDEO_CHUNK_DURATION /\ r

\* the test of the upload loop at a poll
TriggerCountOnly(cur, last, n) == n >= BATCH_COUNT
TriggerStrict(cur, last, n) == cur - last > S3_UPLOAD_INTERVAL \/ n >= BATCH_COUNT
Trigger(cur, last, n) == cur - last >= S3_UPLOAD_INTERVAL \/ n >= BATCH_COUNT
StartsCycle(cur, last, batch) == Trigger(cur, last, Len(batch)) /\ batch # <<>>

\* os.remove after a successful upload; nothing is removed after a failed one
DiskAfterUploadAlways(d, p, ok) == d \ {p}
DiskAfterUpload(d, p, ok) == IF ok THEN d \ {p} ELSE d
\* the for loop goes on to the next chunk, whether the body raised or not
NextInBatchAbort(i, n, raised) == IF raised THEN n + 1 ELSE i + 1
NextInBatch(i, n, raised) == i + 1
\* files_to_upload = [] at the end of a cycle
ClearBatchKeep(batch) == batch
ClearBatch(batch) == <<>>
\* last_upload_time = current_time at the end of a cycle: the time sampled at
\* the poll (cur), not the clock at the end of the cycle (t)
TimerAtCycleEnd(cur, t) == t
TimerAfterCycle(cur, t) == cur

\* ---------------------------------------------------------------------- Init
\* save() has not been called: lines 30-33 and an empty /tmp/video_chunks
SaveNotCalled ==
  /\ pc_s = "start"
  /\ cap_open = FALSE
  /\ frames_per_chunk = 0
  /\ chunk_counter = 0
  /\ frame_counter = 0
  /\ current_writer = NoChunk
  /\ current_filename = NoChunk
  /\ open_writers = {}
  /\ tmp_disk = {}
  /\ stored = {}
  /\ created = <<>>
  /\ attempts = <<>>
  /\ upload_failed = {}
  /\ removed = {}
  /\ exc = FALSE
  /\ saveFaults = 0

Init ==
  /\ mode \in Modes
  /\ s3_bucket \in BOOLEAN
  /\ running = FALSE
  /\ video_queue = <<>>
  /\ camera = "new"
  /\ disk = {}
  /\ now = 0
  /\ pc_m = "idle"
  /\ pc_c = "off"
  /\ filepath = NoPath
  /\ start_time = 0
  /\ wake = 0
  /\ started = {}
  /\ pc_u = "off"
  /\ files_to_upload = <<>>
  /\ last_upload_time = 0
  /\ current_time = 0
  /\ idx = 0
  /\ enqueued = <<>>
  /\ uploadLog = <<>>
  /\ s3 = {}
  /\ failed = {}
  /\ skipped = {}
  /\ aborted = {}
  /\ errlog = FALSE
  /\ threads = <<>>
  /\ stop_time = NoTime
  /\ stop_chunk = NoPath
  /\ recorded = {}
  /\ cycles = 0
  /\ captureErrors = 0
  /\ uploadFailures = 0
  /\ vanishCount = 0
  /\ SaveNotCalled

\* -------------------------------------------------------------- environment
Tick ==
  /\ now + TickStep <= MaxTime
  /\ now' = now + TickStep
  /\ UNCHANGED <<running, video_queue, disk, mainVars, captureVars, uploadVars,
                 vanishCount>>
  /\ UNCHANGED saveVars

\* the file of the chunk the upload loop is about to handle is removed by
\* something other than the program (the case line 177 tests for)
FileVanishes ==
  /\ vanishCount < MaxVanish
  /\ pc_u = "cycle"
  /\ idx <= Len(files_to_upload)
  /\ files_to_upload[idx] \in disk
  /\ disk' = disk \ {files_to_upload[idx]}
  /\ vanishCount' = vanishCount + 1
  /\ UNCHANGED <<running, video_queue, now, mainVars, captureVars, uploadVars>>
  /\ UNCHANGED saveVars

\* ------------------------------------------------------- controlling thread
\* start_capture, supported mode: running is set and the threads are started
StartCapture ==
  /\ pc_m = "idle"
  /\ Supported(mode)
  /\ running' = TRUE
  /\ threads' = Spawned(s3_bucket)
  /\ pc_c' = IF "capture" \in Range(threads') THEN "configure" ELSE "off"
  /\ pc_u' = IF "upload" \in Range(threads') THEN "init" ELSE "off"
  /\ pc_m' = "wait"
  /\ UNCHANGED <<mode, s3_bucket, errlog, stop_time, stop_chunk, video_queue,
                 camera, disk, now, filepath, start_time, wake, started,
                 enqueued, aborted, captureErrors, recorded, files_to_upload,
                 last_upload_time, current_time, idx, uploadLog, s3, failed,
                 skipped, cycles, uploadFailures, vanishCount>>
  /\ UNCHANGED saveVars

\* start_capture, any other mode: the error is logged and the call returns
StartUnsupported ==
  /\ pc_m = "idle"
  /\ ~Supported(mode)
  /\ errlog' = TRUE
  /\ pc_m' = "returned"
  /\ UNCHANGED <<mode, s3_bucket, threads, stop_time, stop_chunk, running,
                 video_queue, disk, now, captureVars, uploadVars, vanishCount>>
  /\ UNCHANGED saveVars

\* stop_capture: running is cleared
ClearRunning ==
  /\ running' = FALSE
  /\ stop_time' = IF running THEN now ELSE stop_time
  /\ stop_chunk' = IF running /\ pc_c = "record" THEN filepath ELSE stop_chunk

\* KeyboardInterrupt in the wait of start_capture: stop_capture is called and
\* start_capture returns
Interrupt ==
  /\ pc_m = "wait"
  /\ ClearRunning
  /\ pc_m' = "returned"
  /\ UNCHANGED <<mode, s3_bucket, errlog, threads, video_queue, disk, now,
                 captureVars, uploadVars, vanishCount>>
  /\ UNCHANGED saveVars

\* stop_capture called from outside the three threads
StopCapture ==
  /\ pc_m = "wait"
  /\ running
  /\ ClearRunning
  /\ UNCHANGED <<mode, s3_bucket, pc_m, errlog, threads, video_queue, disk, now,
                 captureVars, uploadVars, vanishCount>>
  /\ UNCHANGED saveVars

\* the wait of start_capture finds running false and start_capture returns
MainReturn ==
  /\ pc_m = "wait"
  /\ ~running
  /\ pc_m' = "returned"
  /\ UNCHANGED <<mode, s3_bucket, errlog, threads, stop_time, stop_chunk,
                 running, video_queue, disk, now, captureVars, uploadVars,
                 vanishCount>>
  /\ UNCHANGED saveVars

\* a thread that has been started and has neither returned nor died
Live(pc) == pc \notin {"off", "ended", "crashed", "killed"}

\* main returns after start_capture and the interpreter exits: both threads
\* are daemon threads, nothing joins them, and a thread that has not returned
\* by then is ended wherever it is
ProcessExit ==
  /\ pc_m = "returned"
  /\ pc_m' = "exited"
  /\ pc_c' = IF Live(pc_c) THEN "killed" ELSE pc_c
  /\ pc_u' = IF Live(pc_u) THEN "killed" ELSE pc_u
  /\ UNCHANGED <<mode, s3_bucket, errlog, threads, stop_time, stop_chunk,
                 running, video_queue, disk, now, camera, filepath, start_time,
                 wake, started, enqueued, aborted, captureErrors, recorded,
                 files_to_upload, last_upload_time, current_time, idx,
                 uploadLog, s3, failed, skipped, cycles, uploadFailures,
                 vanishCount>>
  /\ UNCHANGED saveVars

\* ----------------------------------------------------------- capture thread
\* lines 105-107: camera.configure and camera.start, outside any try
CaptureConfigure ==
  /\ pc_c = "configure"
  /\ camera' = "started"
  /\ pc_c' = "loop"
  /\ UNCHANGED <<running, video_queue, disk, now, mainVars, filepath,
                 start_time, wake, started, enqueued, aborted, captureErrors,
                 uploadVars, vanishCount,
                 recorded>>
  /\ UNCHANGED saveVars

\* lines 105-107 raise: nothing catches the error and the thread ends
CaptureConfigureRaises ==
  /\ pc_c = "configure"
  /\ captureErrors < MaxCaptureErrors
  /\ captureErrors' = captureErrors + 1
  /\ camera' = "unknown"
  /\ pc_c' = "crashed"
  /\ UNCHANGED <<running, video_queue, disk, now, mainVars, filepath,
                 start_time, wake, started, enqueued, aborted, uploadVars,
                 vanishCount,
                 recorded>>
  /\ UNCHANGED saveVars

\* lines 109-111: the loop test and the path of the next chunk
CaptureLoopTest ==
  /\ pc_c = "loop"
  /\ IF running
       THEN /\ filepath' = PathAt(now)
            /\ pc_c' = "enc_start"
       ELSE /\ filepath' = filepath
            /\ pc_c' = "cleanup"
  /\ UNCHANGED <<running, video_queue, disk, now, mainVars, camera, start_time,
                 wake, started, enqueued, aborted, captureErrors, uploadVars,
                 vanishCount,
                 recorded>>
  /\ UNCHANGED saveVars

\* lines 117-122: the encoder is created and started, which creates the output
\* file; start_time is taken
CaptureEncoderStart ==
  /\ pc_c = "enc_start"
  /\ started' = EncoderStart(started, filepath)
  /\ disk' = disk \cup {filepath}
  /\ start_time' = now
  /\ pc_c' = "record"
  /\ UNCHANGED <<running, video_queue, now, mainVars, camera, filepath, wake,
                 enqueued, aborted, captureErrors, uploadVars, vanishCount,
                 recorded>>
  /\ UNCHANGED saveVars

\* lines 123-124: the wait ends when the duration has passed or running is false
CaptureRecordDone ==
  /\ pc_c = "record"
  /\ ~StillRecording(now, start_time, running)
  /\ recorded' = recorded \cup {<<filepath, now - start_time>>}
  /\ pc_c' = "enc_stop"
  /\ UNCHANGED <<running, video_queue, disk, now, mainVars, camera, filepath,
                 start_time, wake, started, enqueued, aborted, captureErrors,
                 uploadVars, vanishCount>>
  /\ UNCHANGED saveVars

\* line 127: encoder.stop
CaptureEncoderStop ==
  /\ pc_c = "enc_stop"
  /\ started' = EncoderStop(started, filepath)
  /\ pc_c' = "cam_cycle"
  /\ UNCHANGED <<running, video_queue, disk, now, mainVars, camera, filepath,
                 start_time, wake, enqueued, aborted, captureErrors, uploadVars,
                 vanishCount,
                 recorded>>
  /\ UNCHANGED saveVars

\* lines 128-129: camera.stop, camera.start
CaptureCameraCycle ==
  /\ pc_c = "cam_cycle"
  /\ camera' = "started"
  /\ pc_c' = "put"
  /\ UNCHANGED <<running, video_queue, disk, now, mainVars, filepath,
                 start_time, wake, started, enqueued, aborted, captureErrors,
                 uploadVars, vanishCount,
                 recorded>>
  /\ UNCHANGED saveVars

\* lines 132-133: the chunk's path is put on the queue
CapturePut ==
  /\ pc_c = "put"
  /\ video_queue' = QueuePut(video_queue, filepath)
  /\ enqueued' = Append(enqueued, filepath)
  /\ pc_c' = "loop"
  /\ UNCHANGED <<running, disk, now, mainVars, camera, filepath, start_time,
                 wake, started, aborted, captureErrors, uploadVars, vanishCount,
                 recorded>>
  /\ UNCHANGED saveVars

\* lines 117-129 raise, lines 135-138: the call at the current position raises,
\* the handler logs the error and starts its sleep of one second.  The handler
\* neither stops the encoder nor removes the chunk's file.
\*   encoder.start raises: the encoder is not started; the output file has
\*     been created or not (the mock opens the file, then writes to it)
\*   encoder.stop raises: the encoder has been stopped or is still started
\*   camera.stop / camera.start raise: the camera's state is unknown
CaptureRaises ==
  /\ pc_c \in {"enc_start", "enc_stop", "cam_cycle"}
  /\ captureErrors < MaxCaptureErrors
  /\ captureErrors' = captureErrors + 1
  /\ started' \in IF pc_c = "enc_stop"
                    THEN FailedCall(started, EncoderStop(started, filepath))
                    ELSE {started}
  /\ disk' \in IF pc_c = "enc_start"
                 THEN FailedCall(disk, disk \cup {filepath})
                 ELSE {disk}
  /\ camera' = IF pc_c = "cam_cycle" THEN "unknown" ELSE camera
  /\ aborted' = aborted \cup {filepath}
  /\ wake' = now + RETRY_DELAY
  /\ pc_c' = "except"
  /\ UNCHANGED <<running, video_queue, now, mainVars, filepath, start_time,
                 enqueued, uploadVars, vanishCount,
                 recorded>>
  /\ UNCHANGED saveVars

\* lines 141-144: after the sleep the camera is stopped, configured, started
CaptureRestart ==
  /\ pc_c = "except"
  /\ now >= wake
  /\ wake' = 0
  /\ camera' = "started"
  /\ pc_c' = "loop"
  /\ UNCHANGED <<running, video_queue, disk, now, mainVars, filepath,
                 start_time, started, enqueued, aborted, captureErrors,
                 uploadVars, vanishCount,
                 recorded>>
  /\ UNCHANGED saveVars

\* lines 141-146: the restart raises; the error is logged and the loop goes on
CaptureRestartRaises ==
  /\ pc_c = "except"
  /\ now >= wake
  /\ captureErrors < MaxCaptureErrors
  /\ captureErrors' = captureErrors + 1
  /\ wake' = 0
  /\ camera' = "unknown"
  /\ pc_c' = "loop"
  /\ UNCHANGED <<running, video_queue, disk, now, mainVars, filepath,
                 start_time, started, enqueued, aborted, uploadVars,
                 vanishCount,
                 recorded>>
  /\ UNCHANGED saveVars

\* lines 149-153: camera.stop with every error swallowed; the loop has ended
CaptureCleanup ==
  /\ pc_c = "cleanup"
  /\ camera' \in {"stopped", "unknown"}
  /\ pc_c' = "ended"
  /\ UNCHANGED <<running, video_queue, disk, now, mainVars, filepath,
                 start_time, wake, started, enqueued, aborted, captureErrors,
                 uploadVars, vanishCount,
                 recorded>>
  /\ UNCHANGED saveVars

\* ------------------------------------------------------------ upload thread
\* lines 157-158
UploadInit ==
  /\ pc_u = "init"
  /\ last_upload_time' = now
  /\ files_to_upload' = <<>>
  /\ pc_u' = "loop"
  /\ UNCHANGED <<running, video_queue, disk, now, mainVars, captureVars,
                 current_time, idx, uploadLog, s3, failed, skipped,
                 uploadFailures, cycles, vanishCount>>
  /\ UNCHANGED saveVars

\* line 160: the loop test
UploadLoopTest ==
  /\ pc_u = "loop"
  /\ pc_u' = IF running THEN "drain" ELSE "ended"
  /\ UNCHANGED <<running, video_queue, disk, now, mainVars, captureVars,
                 files_to_upload, last_upload_time, current_time, idx,
                 uploadLog, s3, failed, skipped, uploadFailures, cycles, vanishCount>>
  /\ UNCHANGED saveVars

\* lines 164-166: one get_nowait that finds a path
UploadGet ==
  /\ pc_u = "drain"
  /\ video_queue # <<>>
  /\ files_to_upload' = Append(files_to_upload, QueueHead(video_queue))
  /\ video_queue' = QueueRest(video_queue)
  /\ UNCHANGED <<running, disk, now, mainVars, captureVars, pc_u,
                 last_upload_time, current_time, idx, uploadLog, s3, failed,
                 skipped, uploadFailures, cycles, vanishCount>>
  /\ UNCHANGED saveVars

\* lines 167-168: get_nowait raises queue.Empty and the drain ends
UploadQueueEmpty ==
  /\ pc_u = "drain"
  /\ video_queue = <<>>
  /\ pc_u' = "check"
  /\ UNCHANGED <<running, video_queue, disk, now, mainVars, captureVars,
                 files_to_upload, last_upload_time, current_time, idx,
                 uploadLog, s3, failed, skipped, uploadFailures, cycles, vanishCount>>
  /\ UNCHANGED saveVars

\* lines 171-174: the clock is sampled and the cycle starts or does not
UploadCheck ==
  /\ pc_u = "check"
  /\ current_time' = now
  /\ IF StartsCycle(now, last_upload_time, files_to_upload)
       THEN /\ idx' = 1
            /\ cycles' = cycles + 1
            /\ pc_u' = "cycle"
       ELSE /\ idx' = idx
            /\ cycles' = cycles
            /\ pc_u' = "sleep"
  /\ UNCHANGED <<running, video_queue, disk, now, mainVars, captureVars,
                 files_to_upload, last_upload_time, uploadLog, s3, failed,
                 skipped, uploadFailures, vanishCount>>
  /\ UNCHANGED saveVars

\* lines 177-179: the chunk's file does not exist: warning, next chunk
UploadSkipMissing ==
  /\ pc_u = "cycle"
  /\ idx <= Len(files_to_upload)
  /\ files_to_upload[idx] \notin disk
  /\ skipped' = skipped \cup {files_to_upload[idx]}
  /\ idx' = NextInBatch(idx, Len(files_to_upload), FALSE)
  /\ UNCHANGED <<running, video_queue, disk, now, mainVars, captureVars, pc_u,
                 files_to_upload, last_upload_time, current_time, uploadLog, s3,
                 failed, uploadFailures, cycles, vanishCount>>
  /\ UNCHANGED saveVars

\* lines 181-194: upload_file returns and the local file is removed
UploadFile ==
  /\ pc_u = "cycle"
  /\ idx <= Len(files_to_upload)
  /\ files_to_upload[idx] \in disk
  /\ uploadLog' = Append(uploadLog, files_to_upload[idx])
  /\ s3' = s3 \cup {files_to_upload[idx]}
  /\ disk' = DiskAfterUpload(disk, files_to_upload[idx], TRUE)
  /\ idx' = NextInBatch(idx, Len(files_to_upload), FALSE)
  /\ UNCHANGED <<running, video_queue, now, mainVars, captureVars, pc_u,
                 files_to_upload, last_upload_time, current_time, failed,
                 skipped, uploadFailures, cycles, vanishCount>>
  /\ UNCHANGED saveVars

\* lines 181-190 and 196-197: upload_file raises and the error is logged
UploadFileRaises ==
  /\ pc_u = "cycle"
  /\ idx <= Len(files_to_upload)
  /\ files_to_upload[idx] \in disk
  /\ uploadFailures < MaxUploadFailures
  /\ uploadFailures' = uploadFailures + 1
  /\ uploadLog' = Append(uploadLog, files_to_upload[idx])
  /\ failed' = failed \cup {files_to_upload[idx]}
  /\ disk' = DiskAfterUpload(disk, files_to_upload[idx], FALSE)
  /\ idx' = NextInBatch(idx, Len(files_to_upload), TRUE)
  /\ UNCHANGED <<running, video_queue, now, mainVars, captureVars, pc_u,
                 files_to_upload, last_upload_time, current_time, s3, skipped,
                 cycles, vanishCount>>
  /\ UNCHANGED saveVars

\* lines 199-201: the batch is cleared and the timer takes the sampled time
UploadCycleEnd ==
  /\ pc_u = "cycle"
  /\ idx > Len(files_to_upload)
  /\ files_to_upload' = ClearBatch(files_to_upload)
  /\ last_upload_time' = TimerAfterCycle(current_time, now)
  /\ pc_u' = "sleep"
  /\ UNCHANGED <<running, video_queue, disk, now, mainVars, captureVars,
                 current_time, idx, uploadLog, s3, failed, skipped,
                 uploadFailures, cycles, vanishCount>>
  /\ UNCHANGED saveVars

\* line 204: time.sleep(5), then back to the loop test
UploadSleep ==
  /\ pc_u = "sleep"
  /\ pc_u' = "loop"
  /\ UNCHANGED <<running, video_queue, disk, now, mainVars, captureVars,
                 files_to_upload, last_upload_time, current_time, idx,
                 uploadLog, s3, failed, skipped, uploadFailures, cycles, vanishCount>>
  /\ UNCHANGED saveVars

\* ------------------------------------------------------------ specification
Next ==
  \/ Tick
  \/ FileVanishes
  \/ StartCapture
  \/ StartUnsupported
  \/ Interrupt
  \/ StopCapture
  \/ MainReturn
  \/ ProcessExit
  \/ CaptureConfigure
  \/ CaptureConfigureRaises
  \/ CaptureLoopTest
  \/ CaptureEncoderStart
  \/ CaptureRecordDone
  \/ CaptureEncoderStop
  \/ CaptureCameraCycle
  \/ CapturePut
  \/ CaptureRaises
  \/ CaptureRestart
  \/ CaptureRestartRaises
  \/ CaptureCleanup
  \/ UploadInit
  \/ UploadLoopTest
  \/ UploadGet
  \/ UploadQueueEmpty
  \/ UploadCheck
  \/ UploadSkipMissing
  \/ UploadFile
  \/ UploadFileRaises
  \/ UploadCycleEnd
  \/ UploadSleep

Spec == Init /\ [][Next]_vars

\* ---------------------------------------------- the upload loop on its own
\* _s3_upload_loop run as test_s3_upload_flow runs it: running is set, n chunk
\* files exist and their paths are on video_queue, no capture thread runs
InitUpload ==
  /\ mode = "capture-only"
  /\ s3_bucket = TRUE
  /\ running = TRUE
  /\ \E n \in 0..MaxPreload :
       /\ video_queue = [i \in 1..n |-> i]
       /\ enqueued = [i \in 1..n |-> i]
       /\ disk = 1..n
  /\ camera = "new"
  /\ now = 0
  /\ pc_m = "wait"
  /\ pc_c = "off"
  /\ filepath = NoPath
  /\ start_time = 0
  /\ wake = 0
  /\ started = {}
  /\ pc_u = "init"
  /\ files_to_upload = <<>>
  /\ last_upload_time = 0
  /\ current_time = 0
  /\ idx = 0
  /\ uploadLog = <<>>
  /\ s3 = {}
  /\ failed = {}
  /\ skipped = {}
  /\ aborted = {}
  /\ errlog = FALSE
  /\ threads = <<>>
  /\ stop_time = NoTime
  /\ stop_chunk = NoPath
  /\ recorded = {}
  /\ cycles = 0
  /\ captureErrors = 0
  /\ uploadFailures = 0
  /\ vanishCount = 0
  /\ SaveNotCalled

NextUpload ==
  \/ Tick
  \/ FileVanishes
  \/ StopCapture
  \/ UploadInit
  \/ UploadLoopTest
  \/ UploadGet
  \/ UploadQueueEmpty
  \/ UploadCheck
  \/ UploadSkipMissing
  \/ UploadFile
  \/ UploadFileRaises
  \/ UploadCycleEnd
  \/ UploadSleep

SpecUpload == InitUpload /\ [][NextUpload]_vars

\* --------------------------------------------- the capture loop on its own
\* a session without a bucket in which no camera or encoder call raises, on a
\* clock fine enough to stop in the middle of a chunk
InitCapture ==
  /\ Init
  /\ mode = "capture-only"
  /\ s3_bucket = FALSE

\* the clock counts from the call of start_capture
CaptureTick ==
  /\ pc_m # "idle"
  /\ now + CaptureTickStep <= MaxCaptureTime
  /\ now' = now + CaptureTickStep
  /\ UNCHANGED <<running, video_queue, disk, mainVars, captureVars, uploadVars,
                 vanishCount>>
  /\ UNCHANGED saveVars

NextCapture ==
  \/ CaptureTick
  \/ StartCapture
  \/ Interrupt
  \/ StopCapture
  \/ MainReturn
  \/ ProcessExit
  \/ CaptureConfigure
  \/ CaptureLoopTest
  \/ CaptureEncoderStart
  \/ CaptureRecordDone
  \/ CaptureEncoderStop
  \/ CaptureCameraCycle
  \/ CapturePut
  \/ CaptureCleanup

SpecCapture == InitCapture /\ [][NextCapture]_vars

\* ------------------------------------- a session in which running stays true
\* start_capture with a bucket, never stopped or interrupted, no camera or
\* encoder call raising; uploads may fail and files may disappear. The clock
\* advances and the upload thread is scheduled again and again.
InitLive ==
  /\ Init
  /\ mode = "capture-only"
  /\ s3_bucket = TRUE

UploadStep ==
  \/ UploadInit
  \/ UploadLoopTest
  \/ UploadGet
  \/ UploadQueueEmpty
  \/ UploadCheck
  \/ UploadSkipMissing
  \/ UploadFile
  \/ UploadFileRaises
  \/ UploadCycleEnd
  \/ UploadSleep

NextLive ==
  \/ Tick
  \/ FileVanishes
  \/ StartCapture
  \/ CaptureConfigure
  \/ CaptureLoopTest
  \/ CaptureEncoderStart
  \/ CaptureRecordDone
  \/ CaptureEncoderStop
  \/ CaptureCameraCycle
  \/ CapturePut
  \/ UploadStep

SpecLive ==
  /\ InitLive
  /\ [][NextLive]_vars
  /\ WF_vars(Tick)
  /\ WF_vars(UploadStep)

\* ------------------------------------------- ingest/stream.py: save() alone
\* frames_per_chunk = fps * chunk_duration, fps = int(cap.get(FPS)) or 30
FramesPerChunk(f) == (IF f = 0 THEN DEFAULT_FPS ELSE f) * CHUNK_DURATION
\* a frame whose number is a multiple of frames_per_chunk starts a chunk
StartsChunk(fc, fpc) == fc % fpc = 0
\* chunk_counter += 1
NextChunkNumber(c) == c + 1
\* current_writer.release()
WriterReleaseSkipped(open, w) == open
WriterRelease(open, w) == open \ {w}
\* upload_to_s3: upload_file stores the file, or raises and the exception is
\* printed and swallowed; a file that does not exist cannot be stored
UploadResults(f, d) == IF f \in d THEN BOOLEAN ELSE {FALSE}
\* the positions inside the try block and inside the finally block
TryPcs == {"read", "rot_release", "rot_upload", "rot_remove", "new_writer",
           "write"}
FinallyPcs == {"finally", "fin_release", "fin_upload", "fin_remove",
               "cap_release"}

InitSave ==
  /\ Init
  /\ mode = "capture-only"
  /\ s3_bucket = FALSE

\* lines 18-33: the stream opens and reports its frame rate
SaveOpen ==
  /\ pc_s = "start"
  /\ \E f \in FpsValues : frames_per_chunk' = FramesPerChunk(f)
  /\ cap_open' = TRUE
  /\ pc_s' = "read"
  /\ UNCHANGED <<chunk_counter, frame_counter, current_writer,
                 current_filename, open_writers, tmp_disk, stored, created,
                 attempts, upload_failed, removed, exc, saveFaults>>
  /\ UNCHANGED piVars

\* lines 19-20: the stream does not open and save() raises
SaveOpenFails ==
  /\ pc_s = "start"
  /\ exc' = TRUE
  /\ pc_s' = "raised"
  /\ UNCHANGED <<cap_open, frames_per_chunk, chunk_counter, frame_counter,
                 current_writer, current_filename, open_writers, tmp_disk,
                 stored, created, attempts, upload_failed, removed, saveFaults>>
  /\ UNCHANGED piVars

\* lines 37-42: a frame is read; it starts a chunk or goes to the open writer
SaveRead ==
  /\ pc_s = "read"
  /\ frame_counter < MaxFrames
  /\ pc_s' = IF StartsChunk(frame_counter, frames_per_chunk)
               THEN IF current_writer # NoChunk THEN "rot_release"
                                                ELSE "new_writer"
               ELSE "write"
  /\ UNCHANGED <<cap_open, frames_per_chunk, chunk_counter, frame_counter,
                 current_writer, current_filename, open_writers, tmp_disk,
                 stored, created, attempts, upload_failed, removed, exc,
                 saveFaults>>
  /\ UNCHANGED piVars

\* lines 37-39: the stream has ended
SaveReadEnd ==
  /\ pc_s = "read"
  /\ pc_s' = "finally"
  /\ UNCHANGED <<cap_open, frames_per_chunk, chunk_counter, frame_counter,
                 current_writer, current_filename, open_writers, tmp_disk,
                 stored, created, attempts, upload_failed, removed, exc,
                 saveFaults>>
  /\ UNCHANGED piVars

\* line 43: the writer of the finished chunk is released
SaveRotateRelease ==
  /\ pc_s = "rot_release"
  /\ open_writers' = WriterRelease(open_writers, current_writer)
  /\ pc_s' = "rot_upload"
  /\ UNCHANGED <<cap_open, frames_per_chunk, chunk_counter, frame_counter,
                 current_writer, current_filename, tmp_disk, stored, created,
                 attempts, upload_failed, removed, exc, saveFaults>>
  /\ UNCHANGED piVars

\* line 44: upload_to_s3 returns whether the upload worked or not
SaveRotateUpload ==
  /\ pc_s = "rot_upload"
  /\ attempts' = Append(attempts, current_filename)
  /\ \E ok \in UploadResults(current_filename, tmp_disk) :
       /\ stored' = IF ok THEN stored \cup {current_filename} ELSE stored
       /\ upload_failed' = IF ok THEN upload_failed
                                 ELSE upload_failed \cup {current_filename}
  /\ pc_s' = "rot_remove"
  /\ UNCHANGED <<cap_open, frames_per_chunk, chunk_counter, frame_counter,
                 current_writer, current_filename, open_writers, tmp_disk,
                 created, removed, exc, saveFaults>>
  /\ UNCHANGED piVars

\* line 45: os.remove of the finished chunk's file
SaveRotateRemove ==
  /\ pc_s = "rot_remove"
  /\ current_filename \in tmp_disk
  /\ tmp_disk' = tmp_disk \ {current_filename}
  /\ removed' = removed \cup {current_filename}
  /\ pc_s' = "new_writer"
  /\ UNCHANGED <<cap_open, frames_per_chunk, chunk_counter, frame_counter,
                 current_writer, current_filename, open_writers, stored,
                 created, attempts, upload_failed, exc, saveFaults>>
  /\ UNCHANGED piVars

\* line 45: os.remove raises, because the file does not exist or for another
\* reason; the finally block runs and the exception goes on
SaveRotateRemoveRaises ==
  /\ pc_s = "rot_remove"
  /\ \/ current_filename \notin tmp_disk /\ UNCHANGED saveFaults
     \/ /\ current_filename \in tmp_disk
        /\ saveFaults < MaxSaveFaults
        /\ saveFaults' = saveFaults + 1
  /\ exc' = TRUE
  /\ pc_s' = "finally"
  /\ UNCHANGED <<cap_open, frames_per_chunk, chunk_counter, frame_counter,
                 current_writer, current_filename, open_writers, tmp_disk,
                 stored, created, attempts, upload_failed, removed>>
  /\ UNCHANGED piVars

\* lines 47-50: the next chunk's file name and writer; the writer creates the
\* file
SaveNewWriter ==
  /\ pc_s = "new_writer"
  /\ current_filename' = chunk_counter
  /\ current_writer' = chunk_counter
  /\ open_writers' = open_writers \cup {chunk_counter}
  /\ tmp_disk' = tmp_disk \cup {chunk_counter}
  /\ created' = Append(created, chunk_counter)
  /\ chunk_counter' = NextChunkNumber(chunk_counter)
  /\ pc_s' = "write"
  /\ UNCHANGED <<cap_open, frames_per_chunk, frame_counter, stored, attempts,
                 upload_failed, removed, exc, saveFaults>>
  /\ UNCHANGED piVars

\* lines 47-50: cv2.VideoWriter cannot open its file; it does not raise and
\* no file is made
SaveNewWriterNoFile ==
  /\ pc_s = "new_writer"
  /\ saveFaults < MaxSaveFaults
  /\ saveFaults' = saveFaults + 1
  /\ current_filename' = chunk_counter
  /\ current_writer' = chunk_counter
  /\ open_writers' = open_writers \cup {chunk_counter}
  /\ created' = Append(created, chunk_counter)
  /\ chunk_counter' = NextChunkNumber(chunk_counter)
  /\ pc_s' = "write"
  /\ UNCHANGED <<cap_open, frames_per_chunk, frame_counter, tmp_disk, stored,
                 attempts, upload_failed, removed, exc>>
  /\ UNCHANGED piVars

\* lines 52-53: the frame is written
SaveWrite ==
  /\ pc_s = "write"
  /\ frame_counter' = frame_counter + 1
  /\ pc_s' = "read"
  /\ UNCHANGED <<cap_open, frames_per_chunk, chunk_counter, current_writer,
                 current_filename, open_writers, tmp_disk, stored, created,
                 attempts, upload_failed, removed, exc, saveFaults>>
  /\ UNCHANGED piVars

\* line 52: write raises; the finally block runs and the exception goes on
SaveWriteRaises ==
  /\ pc_s = "write"
  /\ saveFaults < MaxSaveFaults
  /\ saveFaults' = saveFaults + 1
  /\ exc' = TRUE
  /\ pc_s' = "finally"
  /\ UNCHANGED <<cap_open, frames_per_chunk, chunk_counter, frame_counter,
                 current_writer, current_filename, open_writers, tmp_disk,
                 stored, created, attempts, upload_failed, removed>>
  /\ UNCHANGED piVars

\* lines 55-56: KeyboardInterrupt anywhere in the try block is swallowed and
\* the finally block runs
SaveInterrupt ==
  /\ pc_s \in TryPcs
  /\ saveFaults < MaxSaveFaults
  /\ saveFaults' = saveFaults + 1
  /\ pc_s' = "finally"
  /\ UNCHANGED <<cap_open, frames_per_chunk, chunk_counter, frame_counter,
                 current_writer, current_filename, open_writers, tmp_disk,
                 stored, created, attempts, upload_failed, removed, exc>>
  /\ UNCHANGED piVars

\* lines 57-63: KeyboardInterrupt inside the finally block leaves save() at
\* once
SaveInterruptFinally ==
  /\ pc_s \in FinallyPcs
  /\ saveFaults < MaxSaveFaults
  /\ saveFaults' = saveFaults + 1
  /\ pc_s' = "raised"
  /\ UNCHANGED <<cap_open, frames_per_chunk, chunk_counter, frame_counter,
                 current_writer, current_filename, open_writers, tmp_disk,
                 stored, created, attempts, upload_failed, removed, exc>>
  /\ UNCHANGED piVars

\* line 58: if current_writer
SaveFinally ==
  /\ pc_s = "finally"
  /\ pc_s' = IF current_writer # NoChunk THEN "fin_release" ELSE "cap_release"
  /\ UNCHANGED <<cap_open, frames_per_chunk, chunk_counter, frame_counter,
                 current_writer, current_filename, open_writers, tmp_disk,
                 stored, created, attempts, upload_failed, removed, exc,
                 saveFaults>>
  /\ UNCHANGED piVars

\* lines 59-60: the writer is released; the file is uploaded if it exists
SaveFinRelease ==
  /\ pc_s = "fin_release"
  /\ open_writers' = WriterRelease(open_writers, current_writer)
  /\ pc_s' = IF current_filename # NoChunk /\ current_filename \in tmp_disk
               THEN "fin_upload"
               ELSE "cap_release"
  /\ UNCHANGED <<cap_open, frames_per_chunk, chunk_counter, frame_counter,
                 current_writer, current_filename, tmp_disk, stored, created,
                 attempts, upload_failed, removed, exc, saveFaults>>
  /\ UNCHANGED piVars

\* line 61: upload_to_s3 returns whether the upload worked or not
SaveFinUpload ==
  /\ pc_s = "fin_upload"
  /\ attempts' = Append(attempts, current_filename)
  /\ \E ok \in UploadResults(current_filename, tmp_disk) :
       /\ stored' = IF ok THEN stored \cup {current_filename} ELSE stored
       /\ upload_failed' = IF ok THEN upload_failed
                                 ELSE upload_failed \cup {current_filename}
  /\ pc_s' = "fin_remove"
  /\ UNCHANGED <<cap_open, frames_per_chunk, chunk_counter, frame_counter,
                 current_writer, current_filename, open_writers, tmp_disk,
                 created, removed, exc, saveFaults>>
  /\ UNCHANGED piVars

\* line 62: os.remove of the last chunk's file
SaveFinRemove ==
  /\ pc_s = "fin_remove"
  /\ current_filename \in tmp_disk
  /\ tmp_disk' = tmp_disk \ {current_filename}
  /\ removed' = removed \cup {current_filename}
  /\ pc_s' = "cap_release"
  /\ UNCHANGED <<cap_open, frames_per_chunk, chunk_counter, frame_counter,
                 current_writer, current_filename, open_writers, stored,
                 created, attempts, upload_failed, exc, saveFaults>>
  /\ UNCHANGED piVars

\* line 62: os.remove raises inside the finally block and save() is left
SaveFinRemoveRaises ==
  /\ pc_s = "fin_remove"
  /\ saveFaults < MaxSaveFaults
  /\ saveFaults' = saveFaults + 1
  /\ exc' = TRUE
  /\ pc_s' = "raised"
  /\ UNCHANGED <<cap_open, frames_per_chunk, chunk_counter, frame_counter,
                 current_writer, current_filename, open_writers, tmp_disk,
                 stored, created, attempts, upload_failed, removed>>
  /\ UNCHANGED piVars

\* line 63: cap.release(); save() returns, or the pending exception goes on
SaveCapRelease ==
  /\ pc_s = "cap_release"
  /\ cap_open' = FALSE
  /\ pc_s' = IF exc THEN "raised" ELSE "returned"
  /\ UNCHANGED <<frames_per_chunk, chunk_counter, frame_counter,
                 current_writer, current_filename, open_writers, tmp_disk,
                 stored, created, attempts, upload_failed, removed, exc,
                 saveFaults>>
  /\ UNCHANGED piVars

NextSave ==
  \/ SaveOpen
  \/ SaveOpenFails
  \/ SaveRead
  \/ SaveReadEnd
  \/ SaveRotateRelease
  \/ SaveRotateUpload
  \/ SaveRotateRemove
  \/ SaveRotateRemoveRaises
  \/ SaveNewWriter
  \/ SaveNewWriterNoFile
  \/ SaveWrite
  \/ SaveWriteRaises
  \/ SaveInterrupt
  \/ SaveInterruptFinally
  \/ SaveFinally
  \/ SaveFinRelease
  \/ SaveFinUpload
  \/ SaveFinRemove
  \/ SaveFinRemoveRaises
  \/ SaveCapRelease

SpecSave == InitSave /\ [][NextSave]_vars

TypeOK ==
  /\ running \in BOOLEAN
  /\ camera \in {"new", "started", "stopped", "unknown"}
  /\ now \in 0..(MaxTime + TickStep)

\* ------------------------------------------------------------------- claims
CaptureExited == pc_c \in {"ended", "crashed"}
UploadExited == pc_u = "ended"
Pending == Range(video_queue) \cup Range(files_to_upload)
Attempted == Range(uploadLog)
\* the position of path p in the order of the puts
PutPos(p) == CHOOSE k \in 1..Len(enqueued) : enqueued[k] = p

\* C1: once stop_capture has been called and both loops have exited, every
\* path that was put on video_queue (or drained into the batch) has been handed
\* to the storage upload, or skipped because its file was gone.
C1_FinalFlush ==
  (s3_bucket /\ ~running /\ CaptureExited /\ UploadExited)
    => Range(enqueued) \subseteq (Attempted \cup skipped)

\* C2: no path that is on video_queue or in the upload worker's batch is the
\* output of an encoder that is still started: a chunk is enqueued only after
\* its encoder has been stopped.
C2_EnqueuedAfterStop == \A p \in Pending : p \notin started

\* C2 witness: a chunk waits for its upload while the capture loop records the
\* next chunk with a started encoder.
C2_Witness ==
  /\ Pending # {}
  /\ pc_c = "record"
  /\ filepath \in started

\* C3: chunks are handed to the storage upload in the order in which the
\* capture loop put them on the queue.
C3_UploadOrder ==
  /\ Attempted \subseteq Range(enqueued)
  /\ \A i, j \in 1..Len(uploadLog) :
       i < j => PutPos(uploadLog[i]) < PutPos(uploadLog[j])

\* C3 witness: two chunks produced by the capture loop have both been handed
\* to the storage upload.
C3_Witness ==
  /\ Len(uploadLog) >= 2
  /\ pc_c # "off"

C5_AtMostOnce ==
  \A i, j \in 1..Len(uploadLog) : i # j => uploadLog[i] # uploadLog[j]

\* C5 witness: a second cycle has started after a cycle in which an upload
\* failed.
C5_Witness ==
  /\ cycles >= 2
  /\ failed # {}
  /\ pc_u = "cycle"

\* the step of the upload loop that decides at a poll whether a cycle starts
PollDecides == pc_u = "check" /\ pc_u' # "check"
Elapsed == now - last_upload_time

\* C6 as stated: at a poll a cycle starts if and only if the elapsed time is
\* at least the interval threshold or the batch holds at least the count
\* threshold.
C6_CycleIffTrigger ==
  [][PollDecides =>
       ((pc_u' = "cycle") <=>
          (Elapsed >= S3_UPLOAD_INTERVAL \/ Len(files_to_upload) >= BATCH_COUNT))]_vars

\* C6 amended: at a poll a cycle starts if and only if the batch is not empty
\* and the elapsed time is at least the interval threshold or the batch holds
\* at least the count threshold.
C6_CycleIffTriggerNonEmpty ==
  [][PollDecides =>
       ((pc_u' = "cycle") <=>
          /\ Len(files_to_upload) > 0
          /\ \/ Elapsed >= S3_UPLOAD_INTERVAL
             \/ Len(files_to_upload) >= BATCH_COUNT)]_vars

\* C6 witness: a cycle started by the count alone, before the interval passed.
C6_Witness ==
  /\ pc_u = "cycle"
  /\ idx = 1
  /\ Len(files_to_upload) >= BATCH_COUNT
  /\ current_time - last_upload_time < S3_UPLOAD_INTERVAL

\* C7: in a cycle every chunk of the batch is handled whatever happened to the
\* chunks before it: the chunks before the loop position have each been handed
\* to the storage upload or skipped as missing, a skipped chunk was never
\* handed to the storage upload, and no chunk leaves the batch without having
\* been handled.
C7_BatchFullyHandled ==
  /\ pc_u = "cycle" =>
       /\ idx \in 1..(Len(files_to_upload) + 1)
       /\ \A k \in 1..Len(files_to_upload) :
            k < idx => files_to_upload[k] \in (Attempted \cup skipped)
  /\ skipped \cap Attempted = {}
  /\ Range(enqueued) \subseteq (Pending \cup Attempted \cup skipped)

\* C7 witness: at the end of a cycle a chunk whose upload failed is followed in
\* the batch by a chunk that was uploaded and deleted, and a chunk whose file
\* was missing by a chunk that was uploaded.
C7_Witness ==
  /\ pc_u = "cycle"
  /\ idx > Len(files_to_upload)
  /\ \E i, j \in 1..Len(files_to_upload) :
       /\ i < j
       /\ files_to_upload[i] \in failed
       /\ files_to_upload[j] \in s3
       /\ files_to_upload[j] \notin disk
  /\ \E i, j \in 1..Len(files_to_upload) :
       /\ i < j
       /\ files_to_upload[i] \in skipped
       /\ files_to_upload[j] \in s3

\* C8: when the recording of a chunk raised an error, then once the handler
\* is through the chunk's file is not on disk, its path was never put on the
\* queue, and the camera is started again for the next chunk.
C8_PartialDiscarded ==
  (pc_c = "loop" /\ aborted # {}) =>
     /\ aborted \cap disk = {}
     /\ aborted \cap Range(enqueued) = {}
     /\ camera = "started"

\* C9: while running is true the capture loop is alive, whatever camera or
\* encoder call has raised.
C9_CaptureAlive ==
  (running /\ pc_m = "wait") => ~CaptureExited

\* C10: no encoder is still started when the encoder of a new chunk is about
\* to be created, nor when the capture loop has exited.
C10_EncodersReleased ==
  (pc_c = "enc_start" \/ CaptureExited) => started = {}


\* C13: when the mode is not a supported one, start_capture never sets running,
\* starts neither loop, and has logged the unsupported mode by the time it
\* returns; it never enters its wait.
C13_UnsupportedMode ==
  mode # "capture-only" =>
    /\ ~running
    /\ threads = <<>>
    /\ pc_c = "off"
    /\ pc_u = "off"
    /\ pc_m # "wait"
    /\ (pc_m \in {"returned", "exited"} => errlog)

\* C13 witness: start_capture was called with an unsupported mode and returned.
C13_Witness ==
  /\ mode = "invalid-mode"
  /\ pc_m = "returned"
  /\ errlog

\* C11: once stop_capture has cleared running, each loop ends only by leaving
\* its own while loop at its next test of the flag: no loop is ended from
\* outside, so a call in progress (an upload, an encoder stop) is never cut off.
C11_LoopsExitOnTheirOwn ==
  ~running => (pc_c # "killed" /\ pc_u # "killed")

\* C12: when stop_capture is called while a chunk is being recorded, that
\* chunk's encoder has been stopped and its path has been put on video_queue
\* by the time the capture loop is over.
C12_TerminalChunkEnqueued ==
  (stop_chunk # NoPath /\ pc_c \in {"ended", "killed"}) =>
    /\ stop_chunk \in Range(enqueued)
    /\ stop_chunk \notin started

\* C14 as stated: once start_capture has passed its mode test in a supported
\* mode, exactly one capture loop and exactly one upload loop have been
\* started, and start_capture has returned only with running false.
C14_StartsBothLoops ==
  (mode = "capture-only" /\ pc_m # "idle") =>
    /\ threads = <<"capture", "upload">>
    /\ pc_c # "off"
    /\ pc_u # "off"
    /\ (stop_time = NoTime => running)
    /\ (pc_m \in {"returned", "exited"} => ~running)

\* C14 amended: in a supported mode start_capture sets running and starts
\* exactly one capture loop, and exactly one upload loop if a bucket was given
\* and none otherwise; running stays true until stop_capture is called, and
\* start_capture returns only after running has become false.
C14_StartsLoops ==
  (mode = "capture-only" /\ pc_m # "idle") =>
    /\ threads = IF s3_bucket THEN <<"capture", "upload">> ELSE <<"capture">>
    /\ pc_c # "off"
    /\ (pc_u # "off" <=> s3_bucket)
    /\ (stop_time = NoTime => running)
    /\ (pc_m \in {"returned", "exited"} => ~running)

\* C14 witness: with a bucket, both loops were started and start_capture has
\* returned after a stop.
C14_Witness ==
  /\ mode = "capture-only"
  /\ s3_bucket
  /\ threads = <<"capture", "upload">>
  /\ pc_m = "returned"
  /\ ~running

\* C17: a step that ends an upload cycle leaves the batch empty and the timer
\* equal to the time sampled at the poll that started the cycle, whatever
\* happened to the chunks; the timer changes at no other step after its
\* initialisation, so a poll that finds the batch empty leaves it unchanged
\* even when the interval has passed.
C17_CycleTimer ==
  [][/\ (pc_u = "cycle" /\ pc_u' = "sleep") =>
          /\ files_to_upload' = <<>>
          /\ last_upload_time' = current_time
     /\ (last_upload_time' # last_upload_time) =>
          (pc_u = "init" \/ (pc_u = "cycle" /\ pc_u' = "sleep"))
     /\ (pc_u = "check" /\ files_to_upload = <<>>) =>
          (pc_u' # "cycle" /\ last_upload_time' = last_upload_time)]_vars

\* C17 witness: a cycle in which one upload failed and one succeeded has ended
\* while the clock moved on after the poll: the batch is empty and the timer
\* holds the sampled time.
C17_Witness ==
  /\ pc_u = "sleep"
  /\ cycles > 0
  /\ failed # {}
  /\ s3 # {}
  /\ files_to_upload = <<>>
  /\ last_upload_time = current_time
  /\ current_time < now

\* the recordings that were put on video_queue, by their length
FullChunks ==
  {r \in recorded : r[1] \in Range(enqueued) /\ r[2] >= VIDEO_CHUNK_DURATION}
PartialChunks ==
  {r \in recorded : r[1] \in Range(enqueued) /\ r[2] < VIDEO_CHUNK_DURATION}

\* C15: when stop_capture was called T > 0 seconds after the start, while a
\* chunk was being recorded, in a session without capture errors, then once the
\* capture loop is over it has enqueued exactly T div VIDEO_CHUNK_DURATION
\* chunks of full duration and exactly one partial chunk, and the file of every
\* enqueued chunk is on disk.
C15_ChunkCount ==
  (/\ stop_time > 0
   /\ stop_chunk # NoPath
   /\ captureErrors = 0
   /\ pc_c \in {"ended", "killed"}) =>
    /\ Cardinality(FullChunks) = stop_time \div VIDEO_CHUNK_DURATION
    /\ Cardinality(PartialChunks) = 1
    /\ Range(enqueued) \subseteq disk

\* C16: save() deletes a chunk file, at a rotation or in the final flush, only
\* after that chunk's upload succeeded: a chunk whose upload failed keeps its
\* local file. Stated for the runs without interrupt and without a raising
\* write or delete.
C16_DeleteOnlyUploaded == saveFaults = 0 => removed \subseteq stored

AttemptCount(c) == Cardinality({k \in 1..Len(attempts) : attempts[k] = c})

\* C19: however the read loop was left (end of stream, interrupt, or an error
\* raised by a write, an upload or a delete), once save() is over the writer
\* of the chunk that was in progress is released, that chunk, whose file was
\* made, has been handed to upload_to_s3 exactly once, and the frame source is
\* released. Stated for the runs with at most one interrupt or raising call
\* in which save() returns or ends with the error that was raised.
C19_LoopExitCleanup ==
  (/\ saveFaults <= 1
   /\ pc_s = "returned" \/ (pc_s = "raised" /\ exc)
   /\ current_writer # NoChunk
   /\ current_filename \in (tmp_disk \cup removed)) =>
    /\ current_writer \notin open_writers
    /\ AttemptCount(current_filename) = 1
    /\ ~cap_open

\* the paths a chunk can get on the bounded clock
ChunkPaths == {PathAt(k * TickStep) : k \in 0..(MaxTime \div TickStep)}
\* the clock cannot reach the next time trigger any more
PastHorizon == last_upload_time + S3_UPLOAD_INTERVAL > MaxTime

\* C20: while running stays true, the clock advances and the upload loop is
\* scheduled fairly, every chunk put on video_queue is eventually handled in an
\* upload cycle (handed to the storage upload, or skipped because its file is
\* gone), also when the batch never reaches BATCH_COUNT chunks; the chunks
\* whose time trigger lies beyond the end of the bounded clock are left out.
C20_EventuallyProcessed ==
  \A p \in ChunkPaths :
    (p \in Range(enqueued)) ~> (p \in (Attempted \cup skipped) \/ PastHorizon)

\* C20 witness: a chunk put on the queue by the capture loop was handled in a
\* cycle started by the time trigger, with fewer than BATCH_COUNT chunks in
\* the session.
C20_Witness ==
  /\ running
  /\ Len(enqueued) < BATCH_COUNT
  /\ Range(enqueued) \cap Attempted # {}
  /\ ~PastHorizon

\* C21: in a session without a bucket no upload loop is ever started, every
\* path that was put is still on video_queue in the order of the puts, the
\* queue changes only by the put of a finished chunk, which makes it one
\* longer, and no file is ever removed from local storage.
C21_NoBucket ==
  [][~s3_bucket =>
       /\ pc_u' = "off"
       /\ "upload" \notin Range(threads')
       /\ video_queue' = enqueued'
       /\ (video_queue' # video_queue =>
             /\ pc_c = "put"
             /\ video_queue' = Append(video_queue, filepath))
       /\ disk \subseteq disk']_vars

\* C21 witness: without a bucket two finished chunks wait on video_queue with
\* their files on disk while the capture loop records the third.
C21_Witness ==
  /\ ~s3_bucket
  /\ "capture" \in Range(threads)
  /\ pc_u = "off"
  /\ pc_c = "record"
  /\ Len(video_queue) = 2
  /\ Range(video_queue) \subseteq disk

====
